---- MODULE Spec2Model ----
(***************************************************************************)
(* A model of the crawl orchestration core of the price scraper:           *)
(*   - BaseCrawler (src/crawlers/base_crawler.py): crawl_multiple,         *)
(*     crawl_product, _scrape_with_firecrawl, _validate_product_data and   *)
(*     the fixed-delay RateLimiter it owns;                                *)
(*   - RateLimiter (src/utils/rate_limiter.py): the token bucket;          *)
(*   - FirecrawlCache (src/utils/firecrawl_cache.py): the result cache;    *)
(*   - AISearchGenerator (src/services/ai_search_generator.py) and the     *)
(*     two export scripts (scripts/extract_eu_products.py and              *)
(*     scripts/extract_eu_products_ai.py).                                 *)
(*                                                                         *)
(* Each component has its own specification over its own variables; the    *)
(* variables of the other components stay at their initial values.         *)
(*                                                                         *)
(* The program runs on one asyncio event loop.  A task keeps the loop      *)
(* until it reaches an await that really suspends (a taken semaphore, a    *)
(* taken lock, asyncio.sleep); `running` names the task that holds the     *)
(* loop, 0 when the loop is free to resume any ready task.                 *)
(***************************************************************************)
EXTENDS Integers, Sequences, FiniteSets, TLC

(***************************************************************************)
(* Bounds of the model and constants of the program.                       *)
(***************************************************************************)
MaxUrls == 3          \* longest URL list given to crawl_multiple
MaxConcurrent == 2    \* largest max_concurrent given to crawl_multiple
MaxNameLen == 2       \* longest product name the extraction step returns
MaxPrice == 1         \* largest price the extraction step returns
max_retries == 3      \* self.max_retries
MaxPeriod == 2        \* slowest token bucket: ticks per token
MaxBurst == 2         \* largest burst_size of a token bucket
MaxCallers == 2       \* coroutines sharing one limiter
MaxCalls == 4         \* calls made on one limiter
MaxTime == 4          \* last tick of the clock
TicksPerSecond == 2   \* resolution of the clock
MaxDelay == 2         \* largest delay_between_requests, in ticks
MaxCacheUrls == 2     \* URLs given to the cache
MaxPayloads == 2      \* different JSON documents given to the cache
MaxTtl == 1           \* largest ttl of the cache, in ticks
MaxCacheTime == 2     \* last tick of the cache's clock
MaxProducts == 2      \* rows of config/products.csv
MaxTerms == 2         \* longest search_terms list in a reply of the text-generation service
MaxReplyLen == 3      \* longest reply, in tokens, among the replies given by their structure
MaxLiveUrls == 2      \* longest URL list of the runs checked for termination
batch_size == 5       \* batch_size of extract_eu_products.main
limit == 2            \* load_test_product_urls(limit=2)

None == <<>>
Some(x) == <<x>>

VARIABLES
    \* ---- crawl engine (BaseCrawler) ----
    urls,               \* the list given to crawl_multiple
    max_concurrent,     \* its max_concurrent argument
    extractor,          \* which extraction step is plugged in: "site" or "any"
    bpc,                \* position of crawl_multiple: "call", "gather", "returned"
    semaphore,          \* value of the asyncio.Semaphore
    running,            \* the task holding the event loop, 0 if none
    pc,                 \* per task: position inside crawl_with_semaphore
    attempt,            \* per task: loop variable of the retry loop
    last_exception,     \* per task: local last_exception (None or Some(text))
    wait_time,          \* per task: local wait_time while it sleeps in its backoff, else 0
    firecrawl_result,   \* per task: local firecrawl_result of crawl_product
    product,            \* per task: local product of crawl_product
    results,            \* gather's buffer: per awaitable, what it returned or raised
    fetch_calls,        \* per task: scrape_url calls the fetch service received
    limiter_calls,      \* per task: wait_if_needed calls the limiter received
    last_request_time,  \* RateLimiter.last_request_time: 0 (the initial 0.0) or 1 (a timestamp)
    overtaken,          \* some task ended before a task of a lower index did
    processed_results,  \* the list crawl_multiple returns
    \* ---- token bucket (utils.rate_limiter.RateLimiter) ----
    rps_sign,           \* sign of self.requests_per_second: 1, 0 or -1
    period,             \* 1 / |requests_per_second|, in ticks (ticks per token)
    burst_size,         \* self.burst_size
    tokens,             \* self.tokens, counted in 1/period of a token
    last_refill,        \* self.last_refill, in ticks
    now,                \* time.time(), in ticks
    lock_holder,        \* the caller holding (or granted) self._lock, 0 if free
    lock_waiters,       \* the callers queued on self._lock, oldest first
    cpc,                \* per caller: "idle", "queued", "granted", "sleeping"
    wake,               \* per caller: when its asyncio.sleep ends
    call_no,            \* per caller: the number of its current call (1 = first call made)
    found,              \* per caller: tokens its current call found after the refill
    ncalls,             \* acquire() calls made so far
    log,                \* the acquire() calls that returned, in order of return
    \* ---- fixed-delay limiter (crawlers.base_crawler.RateLimiter) with a clock ----
    delay_between_requests, \* self.delay_between_requests, in ticks
    d_last_request_time,    \* self.last_request_time, in ticks (0 is the initial 0.0)
    d_now,                  \* time.time(), in ticks
    d_pc,                   \* per caller: "idle" or "sleeping" inside wait_if_needed
    d_wake,                 \* per caller: when its asyncio.sleep ends
    d_ncalls,               \* wait_if_needed() calls made so far
    d_log,                  \* the wait_if_needed() calls that returned, in order of return
    \* ---- result cache (utils.firecrawl_cache.FirecrawlCache) ----
    ttl,                \* self.ttl, in ticks
    cache_files,        \* the *.json files of cache_dir: file name -> content
    cache_now,          \* datetime.now(), in ticks
    last_op,            \* the last call made on the cache and what it gave
    latest_put,         \* per URL: the payload of the last set() made for it since
                        \* the URL last had no file; None if it has no file
    \* ---- export scripts (scripts/extract_eu_products.py, extract_eu_products_ai.py) ----
    script,             \* which script runs: "plain" or "ai"
    csv_file,           \* the rows of config/products.csv
    sites_yaml,         \* the sites that config/sites.yaml has settings for
    environ,            \* which API keys the environment holds
    spc,                \* position of main
    products,           \* main's products
    site_no,            \* position of `for site in ['xlmoto', '24mx']`, from 1
    idx,                \* start of the batch (plain), index of product_info (ai), from 0
    crawl_result,       \* extract_with_ai_search_terms: local crawl_result
    response,           \* generate_search_terms: what messages.create gave
    ai_result,          \* extract_with_ai_search_terms: local ai_result
    combined,           \* main (ai): local result, the combined result of one product
    all_results,        \* the rows collected: extracted_products / all_results
    fetched,            \* a fetch was issued to the fetch service
    abort,              \* the exception that ended main, or None
    written             \* the CSV file was written

engineVars == <<urls, max_concurrent, extractor, bpc, semaphore, running, pc,
                attempt, last_exception, wait_time, firecrawl_result, product,
                results, fetch_calls, limiter_calls, last_request_time, overtaken,
                processed_results>>

bucketVars == <<rps_sign, period, burst_size, tokens, last_refill, now, lock_holder,
                lock_waiters, cpc, wake, call_no, found, ncalls, log>>

delayVars == <<delay_between_requests, d_last_request_time, d_now, d_pc, d_wake,
               d_ncalls, d_log>>

cacheVars == <<ttl, cache_files, cache_now, last_op, latest_put>>

scriptVars == <<script, csv_file, sites_yaml, environ, spc, products, site_no, idx,
                crawl_result, response, ai_result, combined, all_results, fetched,
                abort, written>>

vars == <<engineVars, bucketVars, delayVars, cacheVars, scriptVars>>

\* What the actions of one component leave alone.
notEngineVars == <<bucketVars, delayVars, cacheVars, scriptVars>>
notBucketVars == <<engineVars, delayVars, cacheVars, scriptVars>>
notDelayVars == <<engineVars, bucketVars, cacheVars, scriptVars>>
notCacheVars == <<engineVars, bucketVars, delayVars, scriptVars>>
notScriptVars == <<engineVars, bucketVars, delayVars, cacheVars>>

Tasks == 1..Len(urls)

(***************************************************************************)
(* Values.                                                                 *)
(***************************************************************************)
\* The k-th URL of the catalogue.  The empty string is <<>>.
Url(k) == <<"https://site/product", k>>

\* Strings over a two-letter alphabet: a blank and a letter.
Chars == {" ", "a"}

RECURSIVE StringsUpTo(_)
StringsUpTo(n) ==
    IF n = 0 THEN {<<>>}
    ELSE LET shorter == StringsUpTo(n - 1)
         IN  shorter \cup {Append(s, c) : s \in {t \in shorter : Len(t) = n - 1}, c \in Chars}

\* What scrape_url hands back: success, a response marked unsuccessful, a
\* falsy response, or an exception.
FetchOutcomes == {"ok", "unsuccessful", "empty", "raise"}

\* The dict _scrape_with_firecrawl builds from a successful response.
Payload(u) == [success |-> TRUE, data |-> <<"page of", u>>]

\* CrawlResult(success, product, error_message, retry_count, firecrawl_data)
\* with the dataclass defaults for what the caller leaves out.
CrawlResult(s, p, e, d) ==
    [success |-> s, product |-> p, error_message |-> e, retry_count |-> 0,
     firecrawl_data |-> d]

NoRet == [kind |-> "none"]
Returned(r) == [kind |-> "returned", result |-> r]
Raised(e) == [kind |-> "raised", exc |-> e]

\* ---- the extraction step and _validate_product_data ----

\* A Product as far as the engine reads it: name, url, price (None or Some(n)).
Product(n, u, p) == [kind |-> "Product", name |-> n, url |-> u, price |-> p]
NoProduct == [kind |-> "unbound"]
PyNone == [kind |-> "None"]

Prices == {None} \cup {Some(n) : n \in -1..MaxPrice}

\* What the plugged extraction step may return for a page of url u.  "site":
\* the extractors of the repository (url = u, no price, a cleaned title that
\* may come out empty).  "any": every implementation of the abstract method,
\* within the bounds.
ExtractValues(mode, u) ==
    IF mode = "site"
    THEN {Product(<<"a">>, u, None), Product(<<>>, u, None)}
    ELSE {PyNone} \cup
         {Product(n, w, p) : n \in StringsUpTo(MaxNameLen), w \in {<<>>, u}, p \in Prices}

ExtractError == <<"extraction raised">>
NoneAttributeError == <<"'NoneType' object has no attribute 'name'">>
ValidationFailed == <<"Product data validation failed">>

\* str.strip() on a string over Chars.
RECURSIVE LStrip(_)
LStrip(s) == IF s # <<>> /\ Head(s) = " " THEN LStrip(Tail(s)) ELSE s

RECURSIVE RStrip(_)
RStrip(s) == IF s # <<>> /\ s[Len(s)] = " " THEN RStrip(SubSeq(s, 1, Len(s) - 1)) ELSE s

Strip(s) == RStrip(LStrip(s))

\* Python truthiness of a str.
Truthy(s) == s # <<>>

ValidateNoStrip(p) ==
    IF ~Truthy(p.name) THEN FALSE
    ELSE IF ~Truthy(p.url) THEN FALSE
    ELSE IF p.price # None /\ p.price[1] < 0 THEN FALSE
    ELSE TRUE

ValidateAcceptsAll(p) == TRUE

\* _validate_product_data on a Product.
ValidateProductData(p) ==
    IF ~Truthy(p.name) \/ ~Truthy(Strip(p.name)) THEN FALSE
    ELSE IF ~Truthy(p.url) THEN FALSE
    ELSE IF p.price # None /\ p.price[1] < 0 THEN FALSE
    ELSE TRUE

\* ---- _scrape_with_firecrawl ----

FetchRaised == <<"request failed">>
UnknownFirecrawlError == <<"Unknown Firecrawl error">>
EmptyResult == <<"Empty result from Firecrawl">>


ExhaustedMessageWithoutCause(u, cause) ==
    <<"Failed to scrape", u, "with Firecrawl after", max_retries, "attempts">>

\* The message of the exception raised when the retry loop ends.
ExhaustedMessage(u, cause) ==
    LET head == <<"Failed to scrape", u, "with Firecrawl after", max_retries, "attempts">>
    IN  IF cause # None THEN head \o <<":", cause[1]>> ELSE head

LoopContinuesOffByOne(a) == a <= max_retries

\* for attempt in range(self.max_retries)
LoopContinues(a) == a < max_retries

RECURSIVE Pow2(_)
Pow2(n) == IF n = 0 THEN 1 ELSE 2 * Pow2(n - 1)

\* wait_time = (2 ** attempt) + 1
BackoffDelay(a) == Pow2(a) + 1

RetryPcThroughLimiter == "limiter"

\* Where a task goes on after a failed attempt: back to the head of the loop.
RetryPc == "attempt"

\* ---- crawl_product ----

ExceptionPropagates(e) == Raised(e)

OnExceptionWithoutMessage(e) == Returned(CrawlResult(FALSE, None, None, None))

\* except Exception as e: return CrawlResult(success=False, error_message=str(e))
OnException(e) == Returned(CrawlResult(FALSE, None, Some(e), None))

\* ---- crawl_multiple ----

SemaphoreFreeAlways(s) == TRUE

\* asyncio.Semaphore.acquire goes through without suspending iff value > 0.
SemaphoreFree(s) == s > 0

ReleaseOnSuccessOnly(s, r) ==
    IF r.kind = "returned" /\ r.result.success THEN s + 1 ELSE s


ReleaseTwice(s, r) == s + 2


ReleaseNever(s, r) == s

\* Leaving `async with semaphore`, whatever crawl_product returned or raised.
SemaphoreExit(s, r) == s + 1

\* The loop over gather's results: an exception object becomes a failure.
Processed(r) ==
    IF r.kind = "raised" THEN CrawlResult(FALSE, None, Some(r.exc), None)
    ELSE r.result

StoreAtFirstFree(buf, i, r) ==
    LET free == {k \in DOMAIN buf : buf[k] = NoRet}
        first == CHOOSE k \in free : \A j \in free : k <= j
    IN  [buf EXCEPT ![first] = r]

\* asyncio.gather keeps each outcome at the position of its awaitable.
StoreResult(buf, i, r) == [buf EXCEPT ![i] = r]

ProcessedResultsNeverEmpty(buf) ==
    IF buf = <<>> THEN <<CrawlResult(FALSE, None, Some(<<"no urls">>), None)>>
    ELSE [k \in 1..Len(buf) |-> Processed(buf[k])]

\* for i, result in enumerate(results): processed_results.append(...)
ProcessedResults(buf) == [k \in 1..Len(buf) |-> Processed(buf[k])]

(***************************************************************************)
(* The crawl engine: crawl_multiple over urls, one task per URL.           *)
(***************************************************************************)
\* The lists given to crawl_multiple: n different URLs, or one URL twice.
UrlLists ==
    {[k \in 1..n |-> Url(n + 1 - k)] : n \in 0..MaxUrls} \cup {<<Url(1), Url(1)>>}

EngineInit ==
    /\ urls \in UrlLists
    /\ max_concurrent \in 1..MaxConcurrent
    /\ extractor \in (IF Len(urls) = 1 THEN {"site", "any"} ELSE {"site"})
    /\ bpc = "call"
    /\ semaphore = 0
    /\ running = 0
    /\ pc = [i \in Tasks |-> "waiting"]
    /\ attempt = [i \in Tasks |-> 0]
    /\ last_exception = [i \in Tasks |-> None]
    /\ wait_time = [i \in Tasks |-> 0]
    /\ firecrawl_result = [i \in Tasks |-> None]
    /\ product = [i \in Tasks |-> NoProduct]
    /\ results = [i \in Tasks |-> NoRet]
    /\ fetch_calls = [i \in Tasks |-> 0]
    /\ limiter_calls = [i \in Tasks |-> 0]
    /\ last_request_time = 0
    /\ overtaken = FALSE
    /\ processed_results = <<>>

inputs == <<urls, max_concurrent, extractor>>

\* crawl_multiple up to the gather: the semaphore and one task per URL.
CrawlMultiple ==
    /\ bpc = "call"
    /\ bpc' = "gather"
    /\ semaphore' = max_concurrent
    /\ UNCHANGED <<notEngineVars, inputs, wait_time, running, pc, attempt,
                   last_exception, firecrawl_result, product, results,
                   fetch_calls, limiter_calls, last_request_time, overtaken,
                   processed_results>>

\* async with semaphore: task i enters (at its start, or resumed after a
\* release) and goes on into crawl_product without giving up the loop.
Acquire(i) ==
    /\ i \in Tasks
    /\ bpc = "gather"
    /\ running = 0
    /\ pc[i] = "waiting"
    /\ SemaphoreFree(semaphore)
    /\ semaphore' = semaphore - 1
    /\ pc' = [pc EXCEPT ![i] = "limiter"]
    /\ running' = i
    /\ UNCHANGED <<notEngineVars, inputs, wait_time, bpc, attempt, last_exception,
                   firecrawl_result, product, results, fetch_calls,
                   limiter_calls, last_request_time, overtaken,
                   processed_results>>

\* RateLimiter.wait_if_needed up to its sleep.  time.time() is read from the
\* environment: `short` says that less than delay_between_requests passed
\* since last_request_time, which cannot be while that is still 0.0.
WaitIfNeeded(i) ==
    /\ i \in Tasks
    /\ running = i
    /\ pc[i] = "limiter"
    /\ limiter_calls' = [limiter_calls EXCEPT ![i] = @ + 1]
    /\ \E short \in BOOLEAN :
          /\ short => last_request_time # 0
          /\ IF short
             THEN /\ pc' = [pc EXCEPT ![i] = "rl_sleep"]
                  /\ running' = 0
                  /\ UNCHANGED last_request_time
             ELSE /\ pc' = [pc EXCEPT ![i] = "attempt"]
                  /\ last_request_time' = 1
                  /\ UNCHANGED running
    /\ UNCHANGED <<notEngineVars, inputs, wait_time, bpc, semaphore, attempt,
                   last_exception, firecrawl_result, product, results,
                   fetch_calls, overtaken, processed_results>>

\* The limiter's sleep is over: it stamps last_request_time and returns.
LimiterWake(i) ==
    /\ i \in Tasks
    /\ running = 0
    /\ pc[i] = "rl_sleep"
    /\ last_request_time' = 1
    /\ pc' = [pc EXCEPT ![i] = "attempt"]
    /\ running' = i
    /\ UNCHANGED <<notEngineVars, inputs, wait_time, bpc, semaphore, attempt,
                   last_exception, firecrawl_result, product, results,
                   fetch_calls, limiter_calls, overtaken, processed_results>>

\* One turn of the retry loop calls scrape_url, which blocks the loop.
FetchCall(i) ==
    /\ i \in Tasks
    /\ running = i
    /\ pc[i] = "attempt"
    /\ LoopContinues(attempt[i])
    /\ pc' = [pc EXCEPT ![i] = "fetching"]
    /\ fetch_calls' = [fetch_calls EXCEPT ![i] = @ + 1]
    /\ UNCHANGED <<notEngineVars, inputs, wait_time, bpc, semaphore, running,
                   attempt, last_exception, firecrawl_result, product, results,
                   limiter_calls, last_request_time, overtaken,
                   processed_results>>

\* scrape_url is back.  Success returns the payload to crawl_product (the
\* frame of _scrape_with_firecrawl and its locals are gone); a
\* response that is falsy or not marked successful is remembered and the loop
\* goes on at once; an exception is remembered and the task sleeps.
FetchReturn(i) ==
    /\ i \in Tasks
    /\ running = i
    /\ pc[i] = "fetching"
    /\ \E o \in FetchOutcomes :
          CASE o = "ok" ->
                 /\ firecrawl_result' = [firecrawl_result EXCEPT ![i] = Some(Payload(urls[i]))]
                 /\ pc' = [pc EXCEPT ![i] = "extract"]
                 /\ attempt' = [attempt EXCEPT ![i] = 0]
                 /\ last_exception' = [last_exception EXCEPT ![i] = None]
                 /\ wait_time' = [wait_time EXCEPT ![i] = 0]
                 /\ UNCHANGED running
            [] o \in {"unsuccessful", "empty"} ->
                 /\ last_exception' = [last_exception EXCEPT ![i] =
                        Some(IF o = "empty" THEN EmptyResult ELSE UnknownFirecrawlError)]
                 /\ attempt' = [attempt EXCEPT ![i] = @ + 1]
                 /\ pc' = [pc EXCEPT ![i] = RetryPc]
                 /\ UNCHANGED <<firecrawl_result, running, wait_time>>
            [] o = "raise" ->
                 /\ last_exception' = [last_exception EXCEPT ![i] = Some(FetchRaised)]
                 /\ wait_time' = [wait_time EXCEPT ![i] = BackoffDelay(attempt[i])]
                 /\ pc' = [pc EXCEPT ![i] = "backoff"]
                 /\ running' = 0
                 /\ UNCHANGED <<firecrawl_result, attempt>>
    /\ UNCHANGED <<notEngineVars, inputs, bpc, semaphore, product, results,
                   fetch_calls, limiter_calls, last_request_time, overtaken,
                   processed_results>>

\* asyncio.sleep(wait_time) is over: the next turn of the loop.
BackoffWake(i) ==
    /\ i \in Tasks
    /\ running = 0
    /\ pc[i] = "backoff"
    /\ attempt' = [attempt EXCEPT ![i] = @ + 1]
    /\ wait_time' = [wait_time EXCEPT ![i] = 0]
    /\ pc' = [pc EXCEPT ![i] = RetryPc]
    /\ running' = i
    /\ UNCHANGED <<notEngineVars, inputs, bpc, semaphore, last_exception,
                   firecrawl_result, product, results, fetch_calls,
                   limiter_calls, last_request_time, overtaken,
                   processed_results>>

\* Task i leaves crawl_product and the semaphore with r and ends.
Finish(i, r) ==
    /\ results' = StoreResult(results, i, r)
    /\ pc' = [pc EXCEPT ![i] = "done"]
    /\ semaphore' = SemaphoreExit(semaphore, r)
    /\ overtaken' = (overtaken \/ \E j \in Tasks : j < i /\ pc[j] # "done")
    /\ running' = 0

\* The loop ran out: _scrape_with_firecrawl raises, crawl_product catches.
Exhausted(i) ==
    /\ i \in Tasks
    /\ running = i
    /\ pc[i] = "attempt"
    /\ ~LoopContinues(attempt[i])
    /\ Finish(i, OnException(ExhaustedMessage(urls[i], last_exception[i])))
    /\ UNCHANGED <<notEngineVars, inputs, wait_time, bpc, attempt, last_exception,
                   firecrawl_result, product, fetch_calls, limiter_calls,
                   last_request_time, processed_results>>


ExtractRaiseRetries(i) ==
    /\ i \in Tasks
    /\ running = i
    /\ pc[i] = "extract"
    /\ \/ /\ \E v \in ExtractValues(extractor, urls[i]) :
                product' = [product EXCEPT ![i] = v]
          /\ pc' = [pc EXCEPT ![i] = "validate"]
          /\ UNCHANGED <<semaphore, running, results, overtaken>>
       \/ /\ fetch_calls[i] < max_retries
          /\ pc' = [pc EXCEPT ![i] = RetryPc]
          /\ UNCHANGED <<semaphore, running, results, overtaken, product>>
       \/ /\ Finish(i, OnException(ExtractError))
          /\ UNCHANGED product
    /\ UNCHANGED <<notEngineVars, inputs, wait_time, bpc, attempt, last_exception,
                   firecrawl_result, fetch_calls, limiter_calls,
                   last_request_time, processed_results>>

\* _extract_product_data returns a value or raises.
Extract(i) ==
    /\ i \in Tasks
    /\ running = i
    /\ pc[i] = "extract"
    /\ \/ /\ \E v \in ExtractValues(extractor, urls[i]) :
                product' = [product EXCEPT ![i] = v]
          /\ pc' = [pc EXCEPT ![i] = "validate"]
          /\ UNCHANGED <<semaphore, running, results, overtaken>>
       \/ /\ Finish(i, OnException(ExtractError))
          /\ UNCHANGED product
    /\ UNCHANGED <<notEngineVars, inputs, wait_time, bpc, attempt, last_exception,
                   firecrawl_result, fetch_calls, limiter_calls,
                   last_request_time, processed_results>>

\* The validation and the two returns of crawl_product that follow it.
Validate(i) ==
    /\ i \in Tasks
    /\ running = i
    /\ pc[i] = "validate"
    /\ IF product[i] = PyNone
       THEN Finish(i, OnException(NoneAttributeError))
       ELSE IF ~ValidateProductData(product[i])
       THEN Finish(i, Returned(CrawlResult(FALSE, None, Some(ValidationFailed),
                                           firecrawl_result[i])))
       ELSE Finish(i, Returned(CrawlResult(TRUE, Some(product[i]), None,
                                           firecrawl_result[i])))
    /\ UNCHANGED <<notEngineVars, inputs, wait_time, bpc, attempt, last_exception,
                   firecrawl_result, product, fetch_calls, limiter_calls,
                   last_request_time, processed_results>>

\* Every task ended: gather returns and crawl_multiple builds its list.
GatherReturn ==
    /\ bpc = "gather"
    /\ running = 0
    /\ \A i \in Tasks : pc[i] = "done"
    /\ processed_results' = ProcessedResults(results)
    /\ bpc' = "returned"
    /\ UNCHANGED <<notEngineVars, inputs, wait_time, semaphore, running, pc,
                   attempt, last_exception, firecrawl_result, product, results,
                   fetch_calls, limiter_calls, last_request_time, overtaken>>

EngineNext ==
    \/ CrawlMultiple
    \/ GatherReturn
    \/ \E i \in 1..MaxUrls :
          \/ Acquire(i)
          \/ WaitIfNeeded(i)
          \/ LimiterWake(i)
          \/ FetchCall(i)
          \/ FetchReturn(i)
          \/ BackoffWake(i)
          \/ Exhausted(i)
          \/ Extract(i)
          \/ Validate(i)

(***************************************************************************)
(* The token bucket: RateLimiter.acquire of utils/rate_limiter.py, shared  *)
(* by Callers.  Time is counted in ticks, TicksPerSecond to the second; a  *)
(* limiter of requests_per_second = TicksPerSecond / period gains one      *)
(* token every `period` ticks, and tokens are counted in 1/period of a     *)
(* token, so that elapsed * requests_per_second is `elapsed` and the wait  *)
(* (1 - tokens) / requests_per_second is OneToken - tokens ticks, exactly. *)
(***************************************************************************)
Callers == 1..MaxCallers

Min(a, b) == IF a < b THEN a ELSE b

OneToken == period

InitialTokensEmpty(b) == 0

\* self.tokens = burst_size
InitialTokens(b) == b * OneToken

RefillUncapped(t, elapsed) == t + elapsed * rps_sign

\* min(self.burst_size, self.tokens + elapsed * self.requests_per_second)
Refill(t, elapsed) == Min(burst_size * OneToken, t + elapsed * rps_sign)

\* (1 - self.tokens) / self.requests_per_second, for a rate that is not 0
WaitTime(t) == (OneToken - t) * rps_sign

\* The division raises ZeroDivisionError when requests_per_second is 0.
DivisionRaises == rps_sign = 0

ConsumeTwo(t) == t - 2 * OneToken

\* self.tokens -= 1
Consume(t) == t - OneToken

BucketIdle ==
    /\ lock_holder = 0
    /\ lock_waiters = <<>>
    /\ cpc = [c \in Callers |-> "idle"]
    /\ wake = [c \in Callers |-> 0]
    /\ call_no = [c \in Callers |-> 0]
    /\ found = [c \in Callers |-> 0]
    /\ ncalls = 0
    /\ log = <<>>
    /\ now = 0
    /\ last_refill = 0

\* RateLimiter(requests_per_second, burst_size) at time 0.
BucketInit ==
    /\ rps_sign = 1
    /\ period \in 1..MaxPeriod
    /\ burst_size \in 1..MaxBurst
    /\ tokens = InitialTokens(burst_size)
    /\ BucketIdle

\* RateLimiter(requests_per_second, burst_size) with a rate of any sign:
\* __init__ stores what it is given.
ConfigInit ==
    /\ rps_sign \in {-1, 0, 1}
    /\ period \in 1..MaxPeriod
    /\ burst_size \in 1..MaxBurst
    /\ tokens = InitialTokens(burst_size)
    /\ BucketIdle

\* The engine does not own a token bucket.
NoBucket ==
    /\ rps_sign = 1
    /\ period = 1
    /\ burst_size = 1
    /\ tokens = 0
    /\ BucketIdle

\* No crawl is going on.
NoEngine ==
    /\ urls = <<>>
    /\ max_concurrent = 1
    /\ extractor = "site"
    /\ bpc = "returned"
    /\ semaphore = 0
    /\ running = 0
    /\ pc = <<>>
    /\ attempt = <<>>
    /\ last_exception = <<>>
    /\ wait_time = <<>>
    /\ firecrawl_result = <<>>
    /\ product = <<>>
    /\ results = <<>>
    /\ fetch_calls = <<>>
    /\ limiter_calls = <<>>
    /\ last_request_time = 0
    /\ overtaken = FALSE
    /\ processed_results = <<>>


ReleaseForgetsWaiters(pcs) ==
    /\ lock_holder' = 0
    /\ lock_waiters' = lock_waiters
    /\ cpc' = pcs

\* The caller leaves `async with self._lock`: the lock goes to the oldest
\* waiter, which runs its own refill when the loop resumes it.
Release(pcs) ==
    IF lock_waiters = <<>>
    THEN /\ lock_holder' = 0
         /\ lock_waiters' = <<>>
         /\ cpc' = pcs
    ELSE /\ lock_holder' = Head(lock_waiters)
         /\ lock_waiters' = Tail(lock_waiters)
         /\ cpc' = [pcs EXCEPT ![Head(lock_waiters)] = "granted"]

\* acquire() returns to caller c.
Return(c, n, waited, had, left) ==
    /\ log' = Append(log, [t |-> now, waited |-> waited, call |-> n,
                           found |-> had, left |-> left, raised |-> FALSE])
    /\ Release([cpc EXCEPT ![c] = "idle"])

\* acquire() raises ZeroDivisionError to caller c; the exception leaves
\* `async with self._lock`, which releases the lock.
Raise(c, n, had) ==
    /\ log' = Append(log, [t |-> now, waited |-> FALSE, call |-> n,
                           found |-> had, left |-> had, raised |-> TRUE])
    /\ Release([cpc EXCEPT ![c] = "idle"])

\* The body of acquire() under the lock, up to its sleep or its return.
Enter(c, n) ==
    LET refilled == Refill(tokens, now - last_refill)
    IN  /\ last_refill' = now
        /\ found' = [found EXCEPT ![c] = refilled]
        /\ IF refilled < OneToken /\ DivisionRaises
           THEN /\ tokens' = refilled
                /\ Raise(c, n, refilled)
                /\ UNCHANGED wake
           ELSE IF refilled < OneToken
           THEN /\ tokens' = refilled
                /\ wake' = [wake EXCEPT ![c] = now + WaitTime(refilled)]
                /\ lock_holder' = c
                /\ cpc' = [cpc EXCEPT ![c] = "sleeping"]
                /\ UNCHANGED <<lock_waiters, log>>
           ELSE /\ tokens' = Consume(refilled)
                /\ Return(c, n, FALSE, refilled, Consume(refilled))
                /\ UNCHANGED wake

LockFreeAlways == TRUE

\* `async with self._lock`, entry: the lock is taken at once only if nobody
\* holds it.
LockFree == lock_holder = 0

\* Caller c calls acquire(): it enters at once if the lock is free, else it
\* queues on the lock.
BucketAcquire(c) ==
    /\ cpc[c] = "idle"
    /\ ncalls < MaxCalls
    /\ ncalls' = ncalls + 1
    /\ call_no' = [call_no EXCEPT ![c] = ncalls + 1]
    /\ IF LockFree
       THEN Enter(c, ncalls + 1)
       ELSE /\ lock_waiters' = Append(lock_waiters, c)
            /\ cpc' = [cpc EXCEPT ![c] = "queued"]
            /\ UNCHANGED <<tokens, last_refill, lock_holder, wake, found, log>>
    /\ UNCHANGED <<rps_sign, period, burst_size, now, notBucketVars>>

\* A waiter that was handed the lock runs.
BucketResume(c) ==
    /\ cpc[c] = "granted"
    /\ lock_holder = c
    /\ Enter(c, call_no[c])
    /\ UNCHANGED <<rps_sign, period, burst_size, now, call_no, ncalls, notBucketVars>>

\* The sleep of caller c is over: self.tokens = 0, and acquire() returns.
BucketWake(c) ==
    /\ cpc[c] = "sleeping"
    /\ now >= wake[c]
    /\ tokens' = 0
    /\ Return(c, call_no[c], TRUE, found[c], 0)
    /\ UNCHANGED <<rps_sign, period, burst_size, now, last_refill, wake, call_no, found,
                   ncalls, notBucketVars>>

\* The clock advances.
Tick ==
    /\ now < MaxTime
    /\ now' = now + 1
    /\ UNCHANGED <<rps_sign, period, burst_size, tokens, last_refill, lock_holder,
                   lock_waiters, cpc, wake, call_no, found, ncalls, log, notBucketVars>>


\* The clock goes on past MaxTime for as long as a sleep has not run out.
TickWhileSleeping ==
    /\ now >= MaxTime
    /\ \E c \in Callers : cpc[c] = "sleeping" /\ now < wake[c]
    /\ now' = now + 1
    /\ UNCHANGED <<rps_sign, period, burst_size, tokens, last_refill, lock_holder,
                   lock_waiters, cpc, wake, call_no, found, ncalls, log, notBucketVars>>

BucketNext ==
    \/ Tick
    \/ \E c \in Callers :
          \/ BucketAcquire(c)
          \/ BucketResume(c)
          \/ BucketWake(c)


BucketLiveNext ==
    \/ Tick
    \/ TickWhileSleeping
    \/ \E c \in Callers :
          \/ BucketAcquire(c)
          \/ BucketResume(c)
          \/ BucketWake(c)

(***************************************************************************)
(* The fixed-delay limiter with a clock: RateLimiter.wait_if_needed of     *)
(* crawlers/base_crawler.py (DelayRateLimiter of utils/rate_limiter.py is  *)
(* the same code), shared by the tasks of crawl_multiple.  It has no lock. *)
(* A call keeps the event loop from its time.time() to its asyncio.sleep,  *)
(* and from the end of the sleep to its return.                            *)
(***************************************************************************)
\* time.time() when the limiter is built: seconds since 1970, far more than
\* any delay, so that the first call finds time_since_last >= delay.
Epoch == MaxDelay + 1

\* time_since_last = current_time - self.last_request_time
TimeSinceLast == d_now - d_last_request_time


DelayWaitTimeShort(since) == delay_between_requests - since - 1

\* wait_time = self.delay_between_requests - time_since_last
DelayWaitTime(since) == delay_between_requests - since

\* RateLimiter(requests_per_second, delay_between_requests).
DelayInit ==
    /\ delay_between_requests \in 1..MaxDelay
    /\ d_last_request_time = 0
    /\ d_now = Epoch
    /\ d_pc = [c \in Callers |-> "idle"]
    /\ d_wake = [c \in Callers |-> 0]
    /\ d_ncalls = 0
    /\ d_log = <<>>

\* No timed run of the fixed-delay limiter is going on.
NoDelay ==
    /\ delay_between_requests = 1
    /\ d_last_request_time = 0
    /\ d_now = Epoch
    /\ d_pc = [c \in Callers |-> "idle"]
    /\ d_wake = [c \in Callers |-> 0]
    /\ d_ncalls = 0
    /\ d_log = <<>>

\* self.last_request_time = time.time(), and wait_if_needed() returns.
DelayReturn(c, slept) ==
    /\ d_last_request_time' = d_now
    /\ d_log' = Append(d_log, [t |-> d_now, slept |-> slept])
    /\ d_pc' = [d_pc EXCEPT ![c] = "idle"]

\* Caller c calls wait_if_needed(): it returns at once, or goes to sleep
\* for the rest of the delay since the last_request_time it read.
DelayCall(c) ==
    /\ d_pc[c] = "idle"
    /\ d_ncalls < MaxCalls
    /\ d_ncalls' = d_ncalls + 1
    /\ IF TimeSinceLast < delay_between_requests
       THEN /\ d_wake' = [d_wake EXCEPT ![c] = d_now + DelayWaitTime(TimeSinceLast)]
            /\ d_pc' = [d_pc EXCEPT ![c] = "sleeping"]
            /\ UNCHANGED <<d_last_request_time, d_log>>
       ELSE /\ DelayReturn(c, FALSE)
            /\ UNCHANGED d_wake
    /\ UNCHANGED <<delay_between_requests, d_now, notDelayVars>>

\* The sleep of caller c is over.
DelayWake(c) ==
    /\ d_pc[c] = "sleeping"
    /\ d_now >= d_wake[c]
    /\ DelayReturn(c, TRUE)
    /\ UNCHANGED <<delay_between_requests, d_now, d_wake, d_ncalls, notDelayVars>>

\* The clock advances.
DelayTick ==
    /\ d_now < Epoch + MaxTime
    /\ d_now' = d_now + 1
    /\ UNCHANGED <<delay_between_requests, d_last_request_time, d_pc, d_wake,
                   d_ncalls, d_log, notDelayVars>>

DelayNext ==
    \/ DelayTick
    \/ \E c \in Callers :
          \/ DelayCall(c)
          \/ DelayWake(c)


\* One caller that makes its calls one after the other.
DelaySeqNext ==
    \/ DelayTick
    \/ DelayCall(1)
    \/ DelayWake(1)

(***************************************************************************)
(* The result cache: FirecrawlCache of utils/firecrawl_cache.py.  Its      *)
(* methods are synchronous, so each call is one step.  cache_dir is a map  *)
(* from file names to contents; time is counted in ticks.                  *)
(***************************************************************************)
CacheUrls == {Url(k) : k \in 1..MaxCacheUrls}

\* The Python values given to set() as firecrawl_result.  "json" is a value
\* made of dicts with string keys, lists, strings, numbers, booleans and
\* None; "tuple" is the same document with a tuple where the "json" value
\* has a list; "object" is the document with a value that json cannot
\* encode inside (a datetime, an SDK response object).
PyValue(kind, doc) == [kind |-> kind, doc |-> doc]

JsonValues == {PyValue("json", n) : n \in 1..MaxPayloads}

Payloads == JsonValues \cup {PyValue("tuple", 1), PyValue("object", 1)}

\* json.dump raises TypeError on a value it has no encoding for.
Serializable(p) == p.kind # "object"

\* json.dump(...): the JSON text of a value; a tuple is written as an array.
JsonDump(p) == <<"json text of", p.doc>>

\* json.load(...): the value of a JSON text; an array is read as a list.
JsonLoad(text) == PyValue("json", text[2])

\* datetime.now().isoformat() and datetime.fromisoformat(...)
IsoFormat(t) == <<"iso", t>>
FromIsoFormat(text) == text[2]

CacheKeyByTime(u) == <<"md5", u, cache_now>>

\* hashlib.md5(url.encode('utf-8')).hexdigest(): one key per URL (no two of
\* the URLs modelled collide).
CacheKey(u) == <<"md5", u>>

\* self.cache_dir / f"{cache_key}.json"
CacheFile(cache_key) == <<cache_key, ".json">>

\* What a file of cache_dir holds.  An entry is the record set() writes;
\* firecrawl_result is None when the record has no such key.
Entry(u, cached_at, result) ==
    [form |-> "entry", url |-> u, cached_at |-> cached_at, firecrawl_result |-> result]

\* The other contents a file can have: text that is not JSON (garbage, a
\* truncated write, undecodable bytes), JSON that is not an object (a list,
\* a string, a number, null), an object without cached_at, an object whose
\* cached_at is a string that is no ISO date, and an object whose cached_at
\* is not a string.
CorruptForms == {"invalid_json", "not_a_record", "no_cached_at", "bad_cached_at",
                 "cached_at_not_str"}

Garbage(form) == [form |-> form]

NoFiles == [name \in {} |-> Garbage("invalid_json")]

UnlinkNothing(files, name) == files


\* cache_file.unlink()
Unlink(files, name) == [n \in DOMAIN files \ {name} |-> files[n]]


WriteAlone(files, name, content) == [n \in {name} |-> content]

\* open(cache_file, 'w') and the write: the file is created or replaced.
Write(files, name, content) ==
    [n \in DOMAIN files \cup {name} |-> IF n = name THEN content ELSE files[n]]

GlobIntact == {name \in DOMAIN cache_files : cache_files[name].form = "entry"}

\* self.cache_dir.glob("*.json")
Glob == DOMAIN cache_files

ExpiredAtTtl(cached_at) == cache_now - cached_at >= ttl

\* datetime.now() - cached_at > self.ttl
Expired(cached_at) == cache_now - cached_at > ttl

\* json.load(f) and datetime.fromisoformat(cache_data['cached_at']): the
\* exception raised, "" if none, and the time read.
ReadCachedAt(content) ==
    CASE content.form = "invalid_json" -> [error |-> "JSONDecodeError"]
      [] content.form = "not_a_record" -> [error |-> "TypeError"]
      [] content.form = "no_cached_at" -> [error |-> "KeyError"]
      [] content.form = "bad_cached_at" -> [error |-> "ValueError"]
      [] content.form = "cached_at_not_str" -> [error |-> "TypeError"]
      [] content.form = "entry" ->
            [error |-> "", cached_at |-> FromIsoFormat(content.cached_at)]

\* except (json.JSONDecodeError, KeyError, ValueError)
Caught(error) == error \in {"JSONDecodeError", "KeyError", "ValueError"}

\* The try block of get(): the exception it raises, "" if none, whether it
\* found the entry expired, and the value it returns.
GetTry(content) ==
    LET read == ReadCachedAt(content)
    IN  IF read.error # ""
        THEN [error |-> read.error, expired |-> FALSE]
        ELSE IF Expired(read.cached_at)
        THEN [error |-> "", expired |-> TRUE]
        ELSE IF content.firecrawl_result = None
        THEN [error |-> "KeyError", expired |-> FALSE]
        ELSE [error |-> "", expired |-> FALSE,
              value |-> JsonLoad(content.firecrawl_result[1])]

\* get(url): what it returns or raises, by which path, and the files it
\* leaves.
GetResult(u) ==
    LET name == CacheFile(CacheKey(u))
    IN  IF name \notin Glob
        THEN [ret |-> Returned(PyNone), how |-> "miss", files |-> cache_files]
        ELSE LET try == GetTry(cache_files[name])
             IN  IF try.error # "" /\ Caught(try.error)
                 THEN [ret |-> Returned(PyNone), how |-> "corrupt",
                       files |-> Unlink(cache_files, name)]
                 ELSE IF try.error # ""
                 THEN [ret |-> Raised(try.error), how |-> "raised",
                       files |-> cache_files]
                 ELSE IF try.expired
                 THEN [ret |-> Returned(PyNone), how |-> "expired",
                       files |-> Unlink(cache_files, name)]
                 ELSE [ret |-> Returned(try.value), how |-> "hit",
                       files |-> cache_files]

\* The last call on the cache was set(u, ...), with no tick since.
JustSet(u) == last_op.op = "set" /\ last_op.url = u

\* What the get(u) now made comes after: a set(u, ...) that replaced the
\* entry of another document, a set(u, ...), or something else.
After(u) ==
    IF JustSet(u) /\ last_op.replaced THEN "replace"
    ELSE IF JustSet(u) THEN "set"
    ELSE "other"

\* latest_put once the files are `files`: a URL without file has none.
StillStored(files) ==
    [u \in CacheUrls |->
        IF \E name \in DOMAIN files : name[1][2] = u THEN latest_put[u] ELSE None]

Get(u) ==
    LET r == GetResult(u)
    IN  /\ cache_files' = r.files
        /\ latest_put' = StillStored(r.files)
        /\ last_op' = [op |-> "get", ret |-> r.ret, how |-> r.how, after |-> After(u)]
        /\ UNCHANGED <<ttl, cache_now, notCacheVars>>

\* What set() leaves in the file: the record, or, when json.dump raises in
\* the middle of its writing (which set() logs and swallows), the beginning
\* of the record's text.
Written(u, p) ==
    IF Serializable(p)
    THEN Entry(u, IsoFormat(cache_now), Some(JsonDump(p)))
    ELSE Garbage("invalid_json")

\* set(u, p) finds an entry for u that holds another document.
Replaces(u, p) ==
    LET name == CacheFile(CacheKey(u))
    IN  /\ name \in Glob
        /\ cache_files[name].form = "entry"
        /\ cache_files[name].firecrawl_result # Some(JsonDump(p))

Set(u, p) ==
    /\ cache_files' = Write(cache_files, CacheFile(CacheKey(u)), Written(u, p))
    /\ latest_put' = [latest_put EXCEPT ![u] = Some(p)]
    /\ last_op' = [op |-> "set", url |-> u, payload |-> p, replaced |-> Replaces(u, p)]
    /\ UNCHANGED <<ttl, cache_now, notCacheVars>>

\* The orders in which glob can list the files.
Orders(names) ==
    {order \in [1..Cardinality(names) -> names] :
        \A i, j \in 1..Cardinality(names) : order[i] = order[j] => i = j}

\* The loop of clear_expired() over the files still to visit.
RECURSIVE Scan(_, _, _)
Scan(files, order, removed_count) ==
    IF Len(order) = 0
    THEN [files |-> files, ret |-> Returned(removed_count)]
    ELSE LET name == order[1]
             rest == [k \in 1..(Len(order) - 1) |-> order[k + 1]]
             read == ReadCachedAt(files[name])
         IN  IF read.error # "" /\ Caught(read.error)
             THEN Scan(Unlink(files, name), rest, removed_count + 1)
             ELSE IF read.error # ""
             THEN [files |-> files, ret |-> Raised(read.error)]
             ELSE IF Expired(read.cached_at)
             THEN Scan(Unlink(files, name), rest, removed_count + 1)
             ELSE Scan(files, rest, removed_count)

ClearExpired ==
    \E order \in Orders(Glob) :
        LET r == Scan(cache_files, order, 0)
        IN  /\ cache_files' = r.files
            /\ latest_put' = StillStored(r.files)
            /\ last_op' = [op |-> "clear_expired", ret |-> r.ret]
            /\ UNCHANGED <<ttl, cache_now, notCacheVars>>

ClearAll ==
    LET cache_files_list == Glob
        left == [n \in DOMAIN cache_files \ cache_files_list |-> cache_files[n]]
    IN  /\ cache_files' = left
        /\ latest_put' = StillStored(left)
        /\ last_op' = [op |-> "clear_all", ret |-> Returned(Cardinality(cache_files_list))]
        /\ UNCHANGED <<ttl, cache_now, notCacheVars>>

\* get_cache_stats(): total_entries of what it returns (the sizes and the
\* directory name are not modelled).
GetCacheStats ==
    /\ last_op' = [op |-> "stats", ret |-> Returned(Cardinality(Glob))]
    /\ UNCHANGED <<ttl, cache_files, cache_now, latest_put, notCacheVars>>

\* The clock advances.
CacheTick ==
    /\ cache_now < MaxCacheTime
    /\ cache_now' = cache_now + 1
    /\ last_op' = [op |-> "none"]
    /\ UNCHANGED <<ttl, cache_files, latest_put, notCacheVars>>

\* Something other than the cache (a crash in the middle of a write, an
\* editor, another program) leaves a file of cache_dir with contents that
\* set() would not have written.
Damage(name, form) ==
    /\ name \in Glob
    /\ cache_files' = [cache_files EXCEPT ![name] =
            IF form = "no_payload"
            THEN IF @.form = "entry" THEN [@ EXCEPT !.firecrawl_result = None] ELSE @
            ELSE Garbage(form)]
    /\ last_op' = [op |-> "none"]
    /\ UNCHANGED <<ttl, cache_now, latest_put, notCacheVars>>

\* FirecrawlCache(cache_dir, ttl_hours) on an empty directory.
CacheInit ==
    /\ ttl \in 0..MaxTtl
    /\ cache_files = NoFiles
    /\ cache_now = 0
    /\ last_op = [op |-> "none"]
    /\ latest_put = [u \in CacheUrls |-> None]

\* The cache is not in use.
NoCache ==
    /\ ttl = 0
    /\ cache_files = NoFiles
    /\ cache_now = 0
    /\ last_op = [op |-> "none"]
    /\ latest_put = [u \in CacheUrls |-> None]

CacheNext ==
    \/ CacheTick
    \/ ClearExpired
    \/ ClearAll
    \/ GetCacheStats
    \/ \E u \in CacheUrls :
          \/ Get(u)
          \/ \E p \in Payloads : Set(u, p)

CorruptNext ==
    \/ CacheNext
    \/ \E u \in CacheUrls : \E form \in CorruptForms \cup {"no_payload"} :
          Damage(CacheFile(CacheKey(u)), form)


(***************************************************************************)
(* The enrichment step (AISearchGenerator) and the two export scripts.     *)
(* A script run is sequential.  crawl_product and crawl_multiple are       *)
(* taken by their results: each crawl issues at least one fetch and gives  *)
(* one CrawlResult per URL.  Times (generated_at, extracted_at), the       *)
(* category and the search-term columns of a row are left out.             *)
(***************************************************************************)
\* ---- JSON values of a reply, and Python dicts as functions on their keys ----
\* A value of one of the types "str", "num", "null", "list"; the type of v
\* is the one element of DOMAIN v.
Json(type, value) == [t \in {type} |-> value]

EmptyDict == [k \in {} |-> 0]

\* d.get(key, default)
DictGet(d, key, default) == IF key \in DOMAIN d THEN d[key] ELSE default

\* ---- the replies of the text-generation service ----
\* A reply is a sequence of tokens: a brace, a stretch of other text, or the
\* well-formed members of a JSON object.
Tok(c) == [tok |-> c]
Members(m) == [members |-> m]

\* The replies: every text of up to MaxReplyLen tokens around one object of
\* the asked format, and every object between its braces.  An object may
\* leave a key out, give what the prompt asks for, or a value of another
\* type.
Replies ==
    LET absent == Json("absent", 0)
        names == <<"term 1", "term 2", "term 3", "term 4", "term 5">>
        terms(n) == [k \in 1..n |-> Json("str", names[k])]
        dict(f) == [k \in {x \in DOMAIN f : f[x] # absent} |-> f[k]]
        fields ==
            [search_terms : {absent, Json("str", "terms"), Json("list", <<Json("num", 1)>>)}
                            \cup {Json("list", terms(n)) : n \in 0..MaxTerms},
             brand : {absent, Json("str", "brand")},
             product_type : {absent, Json("str", "helmet")},
             key_features : {absent, Json("null", 0),
                             Json("list", <<Json("str", "feature")>>)},
             confidence : {absent, Json("null", 0), Json("num", 1), Json("str", "high")},
             analysis : {absent, Json("str", "approach")}]
        asked == [search_terms |-> Json("list", terms(1)), brand |-> Json("str", "brand"),
                  product_type |-> Json("str", "helmet"),
                  key_features |-> Json("list", <<Json("str", "feature")>>),
                  confidence |-> Json("num", 1), analysis |-> Json("str", "approach")]
        alphabet == {Tok("{"), Tok("}"), Tok("prose"), Members(asked)}
    IN  UNION {[1..n -> alphabet] : n \in 0..MaxReplyLen}
        \cup {<<Tok("{"), Members(dict(f)), Tok("}")>> : f \in fields}

\* messages.create raises, or gives a response whose text is a reply (the
\* empty text for a response without content).
ApiOutcomes == {[kind |-> "raise"]} \cup {[kind |-> "reply", text |-> t] : t \in Replies}

\* ---- _parse_ai_response ----
\* s[a:b] for 0 <= a
Slice(s, a, b) == SubSeq(s, a + 1, Min(b, Len(s)))

\* json.loads succeeds on `{}` and on `{ members }`, and raises
\* JSONDecodeError on every other text.
JsonParses(s) ==
    \/ s = <<Tok("{"), Tok("}")>>
    \/ /\ Len(s) = 3
       /\ s[1] = Tok("{")
       /\ DOMAIN s[2] = {"members"}
       /\ s[3] = Tok("}")

ParseAiResponse(response_text) ==
    LET \* the places of a brace in the text, from 0
        at(c) == {k - 1 : k \in {j \in 1..Len(response_text) : response_text[j] = Tok(c)}}
        \* str.find, str.rfind
        find(c) == IF at(c) = {} THEN -1 ELSE CHOOSE k \in at(c) : \A j \in at(c) : k <= j
        rfind(c) == IF at(c) = {} THEN -1 ELSE CHOOSE k \in at(c) : \A j \in at(c) : k >= j
        start_idx == find("{")
        end_idx == rfind("}") + 1
        json_str == Slice(response_text, start_idx, end_idx)
        \* data = json.loads(json_str)
        data == IF Len(json_str) = 3 THEN json_str[2].members ELSE EmptyDict
        put(d, key, value) == [k \in DOMAIN d \cup {key} |-> IF k = key THEN value ELSE d[k]]
        \* if field not in data: data[field] = [] if field == 'search_terms' else ''
        default(d, field) ==
            IF field \in DOMAIN d THEN d
            ELSE put(d, field, IF field = "search_terms" THEN Json("list", <<>>)
                               ELSE Json("str", ""))
        \* if not isinstance(data.get('search_terms'), list): data['search_terms'] = []
        listed(d) ==
            IF DOMAIN d.search_terms = {"list"} THEN d
            ELSE put(d, "search_terms", Json("list", <<>>))
    IN  IF start_idx = -1 \/ end_idx = 0 THEN EmptyDict
        ELSE IF ~JsonParses(json_str) THEN EmptyDict
        ELSE listed(default(default(default(data, "search_terms"), "brand"),
                            "product_type"))

\* ---- generate_search_terms ----
\* The acquire() on the generator's own token bucket comes first; it only
\* takes time.
GenerateSearchTerms(outcome) ==
    IF outcome.kind = "raise"
    THEN [success |-> FALSE, error |-> <<"text generation request failed">>,
          search_terms |-> Json("list", <<>>), brand |-> Json("str", ""),
          product_type |-> Json("str", ""), key_features |-> Json("list", <<>>),
          confidence |-> Json("num", 0)]
    ELSE LET search_data == ParseAiResponse(outcome.text)
         IN  [success |-> TRUE,
              search_terms |-> DictGet(search_data, "search_terms", Json("list", <<>>)),
              brand |-> DictGet(search_data, "brand", Json("str", "")),
              product_type |-> DictGet(search_data, "product_type", Json("str", "")),
              key_features |-> DictGet(search_data, "key_features", Json("list", <<>>)),
              confidence |-> DictGet(search_data, "confidence", Json("num", 0)),
              ai_analysis |-> DictGet(search_data, "analysis", Json("str", ""))]

\* ---- crawl_product, by its results ----
CrawlProductResults(u) ==
    {CrawlResult(TRUE, Some(Product(<<"a">>, u, None)), None, Some(Payload(u))),
     CrawlResult(FALSE, None, Some(ValidationFailed), Some(Payload(u))),
     CrawlResult(FALSE, None, Some(ExhaustedMessage(u, Some(FetchRaised))), None)}

\* str() of an Optional[str] inside an f-string.
Text(opt) == IF opt = None THEN <<"None">> ELSE opt[1]

\* ---- extract_with_ai_search_terms: the result of a successful crawl ----
Combined(p, cr, ai) ==
    [success |-> TRUE,
     url |-> p.product_url,
     product |-> [name |-> cr.product[1].name, site_name |-> p.site],
     ai_search_terms |-> DictGet(ai, "search_terms", Json("list", <<>>)),
     ai_brand |-> DictGet(ai, "brand", Json("str", "")),
     ai_product_type |-> DictGet(ai, "product_type", Json("str", "")),
     ai_key_features |-> DictGet(ai, "key_features", Json("list", <<>>)),
     ai_confidence |-> DictGet(ai, "confidence", Json("num", 0)),
     ai_analysis |-> DictGet(ai, "ai_analysis", Json("str", "")),
     ai_success |-> DictGet(ai, "success", FALSE),
     ai_error |-> DictGet(ai, "error", <<>>)]

\* ---- the rows of the CSV ----
Row(p, name, status) ==
    [original_url |-> p.product_url, site |-> p.site, extracted_name |-> name,
     extraction_status |-> status]

\* extract_eu_products.main: the row for one result of the batch.
PlainRow(p, r) ==
    IF r.success /\ r.product # None
    THEN Row(p, r.product[1].name, <<"success">>)
    ELSE Row(p, <<>>, <<"failed: ", Text(r.error_message)>>)

\* What building the success row of extract_eu_products_ai.main raises, if
\* anything: f"{confidence:.2f}", ', '.join(ai_terms[:3]) and
\* '|'.join(result['ai_key_features']), in this order.
RowRaises(res) ==
    IF DOMAIN res.ai_confidence = {"str"}
    THEN Some(<<"Unknown format code 'f' for object of type 'str'">>)
    ELSE IF DOMAIN res.ai_confidence = {"null"}
    THEN Some(<<"unsupported format string passed to NoneType.__format__">>)
    ELSE IF \E k \in 1..Min(3, Len(res.ai_search_terms.list)) :
                DOMAIN res.ai_search_terms.list[k] # {"str"}
    THEN Some(<<"sequence item 0: expected str instance, int found">>)
    ELSE IF DOMAIN res.ai_key_features # {"list"}
    THEN Some(<<"can only join an iterable">>)
    ELSE None

\* extract_eu_products_ai.main: the row for one product; the row of the
\* except branch when building the success row raises.
AiRow(p, res) ==
    IF res.success /\ DictGet(res, "ai_success", FALSE)
    THEN IF RowRaises(res) # None
         THEN Row(p, <<>>, <<"exception: ", RowRaises(res)[1]>>)
         ELSE Row(p, res.product.name, <<"success">>)
    ELSE LET error_msg ==
                 IF "ai_error" \in DOMAIN res THEN res.ai_error
                 ELSE DictGet(res, "error", <<"Unknown error">>)
         IN  Row(p, IF "product" \in DOMAIN res THEN res.product.name ELSE <<>>,
                 <<"failed: ", error_msg>>)

\* ---- the input of a run ----
EuSites == <<"xlmoto", "24mx">>

\* The rows of products.csv: EU products and products of another site.
CsvFiles ==
    UNION {{[k \in 1..n |-> [site |-> f[k], product_url |-> Url(k)]] :
               f \in [1..n -> {"xlmoto", "24mx", "motomax"}]} : n \in 0..MaxProducts}

LoadProductUrls(file) ==
    SelectSeq(file, LAMBDA row : row.site \in {"24mx", "xlmoto"} /\ Truthy(row.product_url))

\* The first n rows that load_product_urls keeps.
LoadTestProductUrls(file, n) == Slice(LoadProductUrls(file), 0, n)

\* site_products = [p for p in products if p['site'] == site]
SiteProducts(site) == SelectSeq(products, LAMBDA p : p.site = site)

\* ---- main ----
ScriptInit ==
    /\ script \in {"plain", "ai"}
    /\ csv_file \in CsvFiles
    /\ sites_yaml \in SUBSET {"xlmoto", "24mx"}
    /\ environ \in [FIRECRAWL_API_KEY : BOOLEAN, ANTHROPIC_API_KEY : BOOLEAN]
    /\ spc = "load"
    /\ products = <<>>
    /\ site_no = 1
    /\ idx = 0
    /\ crawl_result = None
    /\ response = None
    /\ ai_result = None
    /\ combined = None
    /\ all_results = <<>>
    /\ fetched = FALSE
    /\ abort = None
    /\ written = FALSE

\* No script runs.
NoScript ==
    /\ script = "plain"
    /\ csv_file = <<>>
    /\ sites_yaml = {}
    /\ environ = [FIRECRAWL_API_KEY |-> FALSE, ANTHROPIC_API_KEY |-> FALSE]
    /\ spc = "exit"
    /\ products = <<>>
    /\ site_no = 1
    /\ idx = 0
    /\ crawl_result = None
    /\ response = None
    /\ ai_result = None
    /\ combined = None
    /\ all_results = <<>>
    /\ fetched = FALSE
    /\ abort = None
    /\ written = FALSE

scriptInputs == <<script, csv_file, sites_yaml, environ>>

\* products = load_product_urls(), or load_test_product_urls(limit=2); main
\* returns at once when there is none.
Load ==
    /\ spc = "load"
    /\ products' = (IF script = "ai" THEN LoadTestProductUrls(csv_file, limit)
                    ELSE LoadProductUrls(csv_file))
    /\ spc' = (IF products' = <<>> THEN "exit" ELSE "site")
    /\ UNCHANGED <<notScriptVars, scriptInputs, site_no, idx, crawl_result,
                   response, ai_result, combined, all_results, fetched, abort,
                   written>>

\* What setting up the extractor of a site raises, if anything:
\* config.sites['sites']['eu'][site], then BaseCrawler.__init__ with
\* _initialize_firecrawl, then (ai) AISearchGenerator.__init__.
SetupRaises(site) ==
    IF site \notin sites_yaml
    THEN Some(<<"KeyError", site>>)
    ELSE IF ~environ.FIRECRAWL_API_KEY
    THEN Some(<<"ValueError", "FIRECRAWL_API_KEY environment variable is required">>)
    ELSE IF script = "ai" /\ ~environ.ANTHROPIC_API_KEY
    THEN Some(<<"ValueError", "ANTHROPIC_API_KEY environment variable is required">>)
    ELSE None

\* One turn of `for site in ['xlmoto', '24mx']` up to the first product: a
\* site without products is skipped, else its extractor is set up, and an
\* exception of the set-up ends main.
SetupSite ==
    /\ spc = "site"
    /\ site_no <= Len(EuSites)
    /\ IF SiteProducts(EuSites[site_no]) = <<>>
       THEN /\ site_no' = site_no + 1
            /\ UNCHANGED <<spc, abort>>
       ELSE IF SetupRaises(EuSites[site_no]) # None
       THEN /\ spc' = "aborted"
            /\ abort' = SetupRaises(EuSites[site_no])
            /\ UNCHANGED site_no
       ELSE /\ spc' = (IF script = "ai" THEN "crawl" ELSE "batch")
            /\ UNCHANGED <<site_no, abort>>
    /\ UNCHANGED <<notScriptVars, scriptInputs, products, idx, crawl_result,
                   response, ai_result, combined, all_results, fetched, written>>

\* extract_eu_products.main: one batch of the site goes through
\* crawl_multiple, which gives one result per URL, and every result gives a
\* row.  crawl_multiple raises nothing, so the rows of the except branch
\* are never written.
Batch ==
    /\ spc = "batch"
    /\ LET site_products == SiteProducts(EuSites[site_no])
           batch == Slice(site_products, idx, idx + batch_size)
           outcomes == UNION {CrawlProductResults(batch[j].product_url) :
                                 j \in 1..Len(batch)}
       IN  /\ \E rs \in [1..Len(batch) -> outcomes] :
                 /\ \A j \in 1..Len(batch) :
                       rs[j] \in CrawlProductResults(batch[j].product_url)
                 /\ all_results' = all_results \o
                       [j \in 1..Len(batch) |-> PlainRow(batch[j], rs[j])]
           /\ IF idx + batch_size < Len(site_products)
              THEN /\ idx' = idx + batch_size
                   /\ UNCHANGED <<spc, site_no>>
              ELSE /\ idx' = 0
                   /\ site_no' = site_no + 1
                   /\ spc' = "site"
    /\ fetched' = TRUE
    /\ UNCHANGED <<notScriptVars, scriptInputs, products, crawl_result, response,
                   ai_result, combined, abort, written>>

\* The product main (ai) is at.
ProductInfo == SiteProducts(EuSites[site_no])[idx + 1]

\* extract_with_ai_search_terms: crawl_product, and the early return of a
\* failed crawl.
AiCrawl ==
    /\ spc = "crawl"
    /\ \E cr \in CrawlProductResults(ProductInfo.product_url) :
          /\ crawl_result' = Some(cr)
          /\ IF cr.success
             THEN /\ spc' = "enrich"
                  /\ UNCHANGED combined
             ELSE /\ spc' = "row"
                  /\ combined' = Some([success |-> FALSE,
                                       error |-> Text(cr.error_message),
                                       url |-> ProductInfo.product_url])
    /\ fetched' = TRUE
    /\ UNCHANGED <<notScriptVars, scriptInputs, products, site_no, idx, response,
                   ai_result, all_results, abort, written>>

\* extract_with_ai_search_terms: generate_search_terms and the combined
\* result.
AiEnrich ==
    /\ spc = "enrich"
    /\ \E outcome \in ApiOutcomes :
          /\ response' = Some(outcome)
          /\ ai_result' = Some(GenerateSearchTerms(outcome))
          /\ combined' = Some(Combined(ProductInfo, crawl_result[1],
                                       GenerateSearchTerms(outcome)))
    /\ spc' = "row"
    /\ UNCHANGED <<notScriptVars, scriptInputs, products, site_no, idx,
                   crawl_result, all_results, fetched, abort, written>>

\* main (ai): the row of the product, and on to the next product or site.
AiAppendRow ==
    /\ spc = "row"
    /\ all_results' = Append(all_results, AiRow(ProductInfo, combined[1]))
    /\ crawl_result' = None
    /\ response' = None
    /\ ai_result' = None
    /\ combined' = None
    /\ IF idx + 1 < Len(SiteProducts(EuSites[site_no]))
       THEN /\ idx' = idx + 1
            /\ spc' = "crawl"
            /\ UNCHANGED site_no
       ELSE /\ idx' = 0
            /\ site_no' = site_no + 1
            /\ spc' = "site"
    /\ UNCHANGED <<notScriptVars, scriptInputs, products, fetched, abort, written>>

\* After the last site: the CSV file is written and main ends.
Save ==
    /\ spc = "site"
    /\ site_no > Len(EuSites)
    /\ written' = TRUE
    /\ spc' = "exit"
    /\ UNCHANGED <<notScriptVars, scriptInputs, products, site_no, idx,
                   crawl_result, response, ai_result, combined, all_results,
                   fetched, abort>>

ScriptNext ==
    \/ Load
    \/ SetupSite
    \/ Batch
    \/ AiCrawl
    \/ AiEnrich
    \/ AiAppendRow
    \/ Save

Init == EngineInit /\ NoBucket /\ NoDelay /\ NoCache /\ NoScript

Next == EngineNext

Spec == Init /\ [][Next]_vars


\* The engine under a running event loop: a task that is ready runs, a sleep
\* ends, and a call made to the fetch service or the extraction step comes
\* back, so some step is taken whenever one can be.  The lists are those of
\* at most MaxLiveUrls URLs.
InitLive == Init /\ Len(urls) <= MaxLiveUrls

SpecLive == InitLive /\ [][Next]_vars /\ WF_vars(Next)

InitBucket == BucketInit /\ NoEngine /\ NoDelay /\ NoCache /\ NoScript

SpecBucket == InitBucket /\ [][BucketNext]_vars

\* The token bucket with any rate the constructor accepts.

\* The token bucket under a running event loop: time passes, a sleep that
\* ran out ends, and a caller that was handed the lock runs.  Nothing
\* obliges a caller to call.  Only the holder of the lock can be the one
\* that sleeps or was handed the lock, so one condition covers every caller.
SpecBucketLive ==
    /\ InitBucket
    /\ [][BucketLiveNext]_vars
    /\ WF_vars(Tick \/ TickWhileSleeping)
    /\ WF_vars(\E c \in Callers : BucketResume(c) \/ BucketWake(c))

InitConfig == ConfigInit /\ NoEngine /\ NoDelay /\ NoCache /\ NoScript

SpecConfig == InitConfig /\ [][BucketNext]_vars

InitDelay == DelayInit /\ NoEngine /\ NoBucket /\ NoCache /\ NoScript

SpecDelay == InitDelay /\ [][DelayNext]_vars


SpecDelaySeq == InitDelay /\ [][DelaySeqNext]_vars

InitCache == CacheInit /\ NoEngine /\ NoBucket /\ NoDelay /\ NoScript

SpecCache == InitCache /\ [][CacheNext]_vars

\* The cache on a directory that other writers can damage.
SpecCorrupt == InitCache /\ [][CorruptNext]_vars

InitScript == ScriptInit /\ NoEngine /\ NoBucket /\ NoDelay /\ NoCache

\* One run of an export script.
SpecScript == InitScript /\ [][ScriptNext]_vars

(***************************************************************************)
(* Properties of the crawl engine.                                         *)
(***************************************************************************)
Done(i) == pc[i] = "done"

InFlight == {i \in Tasks : pc[i] \notin {"waiting", "done"}}

\* What the requirements on a product are, said without the code's checks.
Blank(s) == \A k \in 1..Len(s) : s[k] = " "

MeetsRequirements(p) ==
    /\ ~Blank(p.name)
    /\ Len(p.url) > 0
    /\ p.price = None \/ p.price[1] >= 0

\* What happened to the URL of task i alone, once the task has ended: its
\* fetch never succeeded, or its extraction raised or returned None, or
\* its product failed or passed the requirements.
OwnOutcome(i) ==
    IF firecrawl_result[i] = None
    THEN CrawlResult(FALSE, None, Some(ExhaustedMessage(urls[i], last_exception[i])), None)
    ELSE IF product[i] = NoProduct
    THEN CrawlResult(FALSE, None, Some(ExtractError), None)
    ELSE IF product[i] = PyNone
    THEN CrawlResult(FALSE, None, Some(NoneAttributeError), None)
    ELSE IF ~MeetsRequirements(product[i])
    THEN CrawlResult(FALSE, None, Some(ValidationFailed), Some(Payload(urls[i])))
    ELSE CrawlResult(TRUE, Some(product[i]), None, Some(Payload(urls[i])))

\* C1: crawl_multiple returns one result per input URL, and the result at
\* index i is the result of crawling urls[i], whatever the order in which the
\* crawls completed.
C1_OrderPreserved ==
    bpc = "returned" =>
        /\ Len(processed_results) = Len(urls)
        /\ \A i \in Tasks : processed_results[i] = OwnOutcome(i)

\* Three URLs, two at a time, the crawls completed out of input order and
\* gave different results.
C1_Witness ==
    /\ bpc = "returned"
    /\ Len(urls) = 3
    /\ max_concurrent = 2
    /\ overtaken
    /\ processed_results[1].success
    /\ ~processed_results[2].success
    /\ processed_results[1] # processed_results[3]

\* C2: at most max_concurrent crawl_product invocations hold a slot at any
\* time, hence at most max_concurrent fetch calls are outstanding.
C2_ConcurrencyCeiling ==
    /\ Cardinality(InFlight) <= max_concurrent
    /\ Cardinality({i \in Tasks : pc[i] = "fetching"}) <= max_concurrent
    /\ bpc # "call" => semaphore = max_concurrent - Cardinality(InFlight)

\* All slots taken, a fetch outstanding and a third URL kept waiting.
C2_Witness ==
    /\ Len(urls) = 3
    /\ max_concurrent = 2
    /\ Cardinality(InFlight) = 2
    /\ \E i \in Tasks : pc[i] = "fetching"
    /\ \E i \in Tasks : pc[i] = "waiting"

\* C3: a URL whose own fetch, extraction and validation succeed gets a
\* successful result whatever happens to the other URLs, and a failed URL
\* neither aborts the batch nor keeps the waiting URLs from starting.
C3_FailuresIsolated ==
    /\ \A i \in Tasks :
          (/\ Done(i)
           /\ firecrawl_result[i] # None
           /\ product[i].kind = "Product"
           /\ MeetsRequirements(product[i]))
          => /\ results[i].kind = "returned"
             /\ results[i].result.success
             /\ results[i].result.product = Some(product[i])
    /\ bpc = "returned" =>
          \A i \in Tasks : processed_results[i].success = OwnOutcome(i).success
    /\ (bpc = "gather" /\ InFlight = {} /\ \E i \in Tasks : pc[i] = "waiting")
          => semaphore > 0

\* The second of three URLs failed all its fetches, the other two succeeded.
C3_Witness ==
    /\ bpc = "returned"
    /\ Len(urls) = 3
    /\ firecrawl_result[2] = None
    /\ fetch_calls[2] = max_retries
    /\ ~processed_results[2].success
    /\ processed_results[1].success
    /\ processed_results[3].success

\* C4: a fetch that fails on every attempt is attempted exactly max_retries
\* times, never more and never fewer, and the URL then ends in a failure.
C4_RetryExhaustion ==
    \A i \in Tasks :
        /\ fetch_calls[i] <= max_retries
        /\ (Done(i) /\ firecrawl_result[i] = None) =>
              /\ fetch_calls[i] = max_retries
              /\ results[i].kind = "returned"
              /\ ~results[i].result.success
              /\ results[i].result.error_message # None

\* A URL ended after three failed attempts, the last one a response marked
\* unsuccessful.
C4_Witness ==
    \E i \in Tasks :
        /\ Done(i)
        /\ firecrawl_result[i] = None
        /\ fetch_calls[i] = 3
        /\ last_exception[i] = Some(UnknownFirecrawlError)

\* C5: crawl_product never propagates an exception: when the fetch, the
\* extraction or the validation raises, it returns a CrawlResult with
\* success = false and the error text as error_message.
C5_NoExceptionEscapes ==
    \A i \in Tasks :
        /\ results[i].kind # "raised"
        /\ (Done(i) /\ firecrawl_result[i] = None) =>
              results[i] = Returned(CrawlResult(FALSE, None,
                  Some(ExhaustedMessage(urls[i], last_exception[i])), None))
        /\ (Done(i) /\ firecrawl_result[i] # None /\ product[i] = NoProduct) =>
              results[i] = Returned(CrawlResult(FALSE, None, Some(ExtractError), None))
        /\ (Done(i) /\ product[i] = PyNone) =>
              results[i] = Returned(CrawlResult(FALSE, None, Some(NoneAttributeError), None))

\* The extraction step raised after a successful fetch.
C5_Witness ==
    \E i \in Tasks :
        /\ Done(i)
        /\ firecrawl_result[i] # None
        /\ product[i] = NoProduct
        /\ results[i].kind = "returned"
        /\ results[i].result.error_message = Some(ExtractError)

\* C6: a product with an empty or whitespace-only name, an empty URL or a
\* negative price makes crawl_product return a failure that says validation
\* failed; any other product passes validation.
C6_ValidationRejects ==
    \A i \in Tasks :
        (Done(i) /\ product[i].kind = "Product") =>
            IF \/ Blank(product[i].name)
               \/ product[i].url = <<>>
               \/ (product[i].price # None /\ product[i].price[1] < 0)
            THEN results[i] = Returned(CrawlResult(FALSE, None, Some(ValidationFailed),
                                                   firecrawl_result[i]))
            ELSE results[i] = Returned(CrawlResult(TRUE, Some(product[i]), None,
                                                   firecrawl_result[i]))

\* A product whose name is whitespace only, with a URL and no price, was
\* rejected.
C6_Witness ==
    \E i \in Tasks :
        /\ Done(i)
        /\ product[i] = Product(<<" ", " ">>, urls[i], None)
        /\ results[i].result.error_message = Some(ValidationFailed)

\* C7: one crawl of one URL consults the rate limiter exactly once, before
\* its first fetch attempt, and not again before the later attempts.
C7_LimiterOncePerUrl ==
    \A i \in Tasks :
        /\ limiter_calls[i] <= 1
        /\ fetch_calls[i] >= 1 => limiter_calls[i] = 1

\* A URL made its third fetch attempt after one visit to the limiter.
C7_Witness ==
    \E i \in Tasks : fetch_calls[i] = 3 /\ limiter_calls[i] = 1

(***************************************************************************)
(* Properties of the token bucket, under SpecBucket.                       *)
(***************************************************************************)
\* The calls that returned at a time in from..to.
ReturnsIn(from, to) == {k \in 1..Len(log) : from <= log[k].t /\ log[k].t <= to}

\* Those of them that returned without sleeping.
UnwaitedIn(from, to) == {k \in ReturnsIn(from, to) : ~log[k].waited}

\* C8: in any interval of length T at most burst_size + requests_per_second * T
\* acquire() calls return (in 1/period of a token: burst_size * period + T).
C8_RateBound ==
    \A from \in 0..MaxTime : \A T \in 0..MaxTime :
        Cardinality(ReturnsIn(from, from + T)) * OneToken
            <= burst_size * OneToken + T

\* C9: in any window of one second at most burst_size calls return without
\* sleeping.
C9_UnwaitedAtMostBurst ==
    \A from \in 0..MaxTime :
        Cardinality(UnwaitedIn(from, from + TicksPerSecond - 1)) <= burst_size

\* C9, amended: in any window of one second at most
\* burst_size + requests_per_second calls return without sleeping.
C9_UnwaitedAtMostBurstPlusRate ==
    \A from \in 0..MaxTime :
        Cardinality(UnwaitedIn(from, from + TicksPerSecond)) * OneToken
            <= burst_size * OneToken + TicksPerSecond

\* More than burst_size calls returned without sleeping within one second.
C9_Witness ==
    \E from \in 0..MaxTime :
        Cardinality(UnwaitedIn(from, from + TicksPerSecond - 1)) > burst_size

\* C10: the first burst_size calls on a fresh limiter return without
\* suspending, and any call that finds at least one token after the refill
\* takes exactly one and returns without sleeping.
C10_BurstWithoutDelay ==
    /\ \A c \in Callers : cpc[c] # "idle" => call_no[c] > burst_size
    /\ \A k \in 1..Len(log) :
          (log[k].call <= burst_size \/ log[k].found >= OneToken) =>
              /\ ~log[k].waited
              /\ log[k].found >= OneToken
              /\ log[k].left = log[k].found - OneToken

\* A limiter of burst_size 2 let its first two calls through at once, which
\* emptied it, and made the third one sleep.
C10_Witness ==
    /\ burst_size = 2
    /\ Len(log) = 3
    /\ log[1].call = 1 /\ ~log[1].waited /\ log[1].t = 0
    /\ log[2].call = 2 /\ ~log[2].waited /\ log[2].t = 0 /\ log[2].left = 0
    /\ log[3].waited

C12_MutualExclusion ==
    /\ Cardinality({c \in Callers : cpc[c] = "sleeping"}) <= 1
    /\ \A c \in Callers :
          cpc[c] = "sleeping" =>
              /\ lock_holder = c
              /\ tokens = found[c]
              /\ last_refill = wake[c] - WaitTime(found[c])
    /\ \A c \in Callers :
          cpc[c] = "queued" <=> \E k \in 1..Len(lock_waiters) : lock_waiters[k] = c

\* A caller sleeps inside acquire() past the time another caller called,
\* which is kept waiting on the lock.
C12_Witness ==
    \E c, d \in Callers :
        /\ cpc[c] = "sleeping"
        /\ cpc[d] = "queued"
        /\ now > last_refill

(***************************************************************************)
(* Properties of the token bucket with any rate, under SpecConfig.         *)
(***************************************************************************)
\* C14: a limiter with requests_per_second <= 0 cannot be constructed, so
\* that every limiter that exists has a positive rate and none of its
\* acquire() calls raises.
C14_NonPositiveRateRejected ==
    /\ rps_sign > 0
    /\ \A k \in 1..Len(log) : ~log[k].raised

(***************************************************************************)
(* Properties of the fixed-delay limiter, under SpecDelay.                 *)
(***************************************************************************)
\* C13: whatever the interleaving of the concurrent wait_if_needed() calls
\* on one limiter, any two calls return at least delay_between_requests
\* apart.
C13_ReturnsApart ==
    \A j, k \in 1..Len(d_log) :
        j < k => d_log[k].t - d_log[j].t >= delay_between_requests

(***************************************************************************)
(* Properties of the cache, under SpecCache and SpecCorrupt.               *)
(***************************************************************************)
\* The files of cache_dir that belong to URL u, whatever they hold.
FilesOf(u) == {name \in DOMAIN cache_files : name[1][2] = u}

\* URL u has an entry that is older than the ttl.
HasAgedEntry(u) ==
    \E name \in FilesOf(u) :
        /\ cache_files[name].form = "entry"
        /\ cache_now - cache_files[name].cached_at[2] > ttl

\* The step is a call of get(u).
GetStep(u) == last_op'.op = "get" /\ Get(u)

\* URL u has a file that is no entry, or an entry without a payload.
HasUnparseable(u) ==
    \E name \in FilesOf(u) :
        \/ cache_files[name].form \in CorruptForms
        \/ /\ cache_files[name].form = "entry"
           /\ cache_files[name].firecrawl_result = None

C16_ExpiredDeleted ==
    [][\A u \in CacheUrls :
          /\ (HasAgedEntry(u) /\ GetStep(u)) =>
                /\ last_op'.ret = Returned(PyNone)
                /\ FilesOf(u)' = {}
          /\ (FilesOf(u) = {} /\ GetStep(u)) =>
                /\ last_op'.ret = Returned(PyNone)
                /\ FilesOf(u)' = {}
          /\ (FilesOf(u) = {} /\ FilesOf(u)' # {}) => \E p \in Payloads : Set(u, p)]_vars

\* A get() found the entry of a URL expired; the entry is gone.
C16_Witness ==
    /\ last_op.op = "get"
    /\ last_op.how = "expired"
    /\ last_op.ret = Returned(PyNone)
    /\ cache_now > ttl
    /\ \E u \in CacheUrls : FilesOf(u) = {} /\ latest_put[u] = None

\* C17: get(url) on stored content of any unreadable or unparseable form
\* reports absent without raising and leaves no entry for the URL.
C17_CorruptionRecovered ==
    [][\A u \in CacheUrls :
          (HasUnparseable(u) /\ GetStep(u)) =>
              /\ last_op'.ret = Returned(PyNone)
              /\ FilesOf(u)' = {}]_vars

Doomed ==
    {name \in DOMAIN cache_files :
        \/ cache_files[name].form \in CorruptForms
        \/ /\ cache_files[name].form = "entry"
           /\ cache_now - cache_files[name].cached_at[2] > ttl}

\* C19: clear_expired() removes exactly the entries whose age exceeds the
\* ttl or that fail to parse, keeps every other entry unchanged, and
\* returns the number of entries it removed.
C19_EvictsExactly ==
    [][(last_op'.op = "clear_expired" /\ ClearExpired) =>
          /\ DOMAIN cache_files' = DOMAIN cache_files \ Doomed
          /\ \A name \in DOMAIN cache_files' : cache_files'[name] = cache_files[name]
          /\ last_op'.ret = Returned(Cardinality(Doomed))]_vars

\* C20: clear_all() removes every entry and returns the number of entries
\* there were; on the cache it leaves, get_cache_stats() reports 0 entries
\* and get(url) reports absent for every URL.
C20_ClearAll ==
    [][/\ (last_op'.op = "clear_all" /\ ClearAll) =>
             /\ DOMAIN cache_files' = {}
             /\ last_op'.ret = Returned(Cardinality(DOMAIN cache_files))
       /\ last_op.op = "clear_all" => DOMAIN cache_files = {}
       /\ (DOMAIN cache_files = {} /\ GetCacheStats) => last_op'.ret = Returned(0)
       /\ \A u \in CacheUrls :
             (DOMAIN cache_files = {} /\ GetStep(u)) => last_op'.ret = Returned(PyNone)]_vars

\* clear_all() emptied a cache that held a file for every URL.
C20_Witness ==
    /\ last_op.op = "clear_all"
    /\ last_op.ret = Returned(MaxCacheUrls)
    /\ DOMAIN cache_files = {}

(***************************************************************************)
(* Further properties of the crawl engine, under Spec.                     *)
(***************************************************************************)
\* C21: a URL whose fetch already succeeded is served from the cache when it
\* is crawled again: no fetch call is outstanding for a URL while another
\* crawl of the same URL holds the payload of its successful fetch.
C21_SecondCrawlFromCache ==
    \A i \in Tasks : \A j \in Tasks :
        (i # j /\ urls[i] = urls[j] /\ firecrawl_result[j] # None)
        => pc[i] # "fetching"

\* The CrawlResults handed out so far: by crawl_product to its caller and by
\* crawl_multiple in its list.
HandedOut ==
    {results[i].result : i \in {k \in Tasks : results[k].kind = "returned"}}
    \cup {processed_results[k] : k \in 1..Len(processed_results)}

\* C22: every CrawlResult returned by crawl_product or crawl_multiple has
\* exactly one of product and error_message: a success has a product and no
\* error_message, a failure has an error_message and no product.
C22_ProductXorError ==
    \A r \in HandedOut :
        /\ r.success => (r.product # None /\ r.error_message = None)
        /\ ~r.success => (r.error_message # None /\ r.product = None)

\* crawl_multiple returned a success, an exhausted fetch and a product that
\* failed validation.
C22_Witness ==
    /\ bpc = "returned"
    /\ \E k \in Tasks : processed_results[k].success
    /\ \E k \in Tasks :
          /\ firecrawl_result[k] = None
          /\ ~processed_results[k].success
    /\ \E k \in Tasks : processed_results[k].error_message = Some(ValidationFailed)

\* The calls counted in a per-task counter, over all tasks.
RECURSIVE TotalCalls(_, _)
TotalCalls(counter, n) ==
    IF n = 0 THEN 0 ELSE counter[n] + TotalCalls(counter, n - 1)

\* C26: crawl_multiple on an empty URL list returns an empty list and calls
\* neither the rate limiter nor the fetch service nor the extraction step.
C26_EmptyList ==
    urls = <<>> =>
        /\ TotalCalls(limiter_calls, Len(urls)) = 0
        /\ last_request_time = 0
        /\ TotalCalls(fetch_calls, Len(urls)) = 0
        /\ \A i \in DOMAIN product : product[i] = NoProduct
        /\ running = 0
        /\ bpc = "returned" => processed_results = <<>>

\* crawl_multiple returned from an empty URL list.
C26_Witness ==
    /\ urls = <<>>
    /\ bpc = "returned"
    /\ processed_results = <<>>

\* C28: after each failed fetch attempt that another attempt follows,
\* whether the attempt raised or its response was marked unsuccessful,
\* the task sleeps 2^attempt + 1 seconds before the next attempt.
C28_BackoffAfterEveryFailure ==
    [][\A i \in Tasks :
          (/\ pc[i] = "fetching"
           /\ pc'[i] # "fetching"
           /\ firecrawl_result'[i] = None
           /\ LoopContinues(attempt[i] + 1))
          => /\ pc'[i] = "backoff"
             /\ wait_time'[i] = BackoffDelay(attempt[i])]_vars

\* C29: backoff sleeps occur only between attempts: they last 2 s after the
\* first attempt and 3 s after the second, and none follows the last attempt.
C29_BackoffOnlyBetweenAttempts ==
    \A i \in Tasks :
        pc[i] = "backoff" =>
            /\ LoopContinues(attempt[i] + 1)
            /\ attempt[i] = 0 => wait_time[i] = 2
            /\ attempt[i] = 1 => wait_time[i] = 3

\* The failure of a URL whose retry loop ran out.
IsExhausted(i) ==
    /\ results[i].kind = "returned"
    /\ results[i].result.error_message =
          Some(ExhaustedMessage(urls[i], last_exception[i]))

\* C30: per URL the steps come in the order rate-limit wait, fetch attempts,
\* extraction, validation, result: extraction only after a fetch succeeded
\* and with its payload, validation only after extraction returned, a
\* success only after validation passed, and no extraction for a URL whose
\* fetch is exhausted.
C30_StepOrder ==
    \A i \in Tasks :
        /\ pc[i] \in {"waiting", "limiter", "rl_sleep"} =>
              (fetch_calls[i] = 0 /\ firecrawl_result[i] = None /\ product[i] = NoProduct)
        /\ pc[i] \in {"attempt", "fetching", "backoff"} =>
              (limiter_calls[i] = 1 /\ firecrawl_result[i] = None /\ product[i] = NoProduct)
        /\ pc[i] = "extract" =>
              /\ fetch_calls[i] >= 1
              /\ firecrawl_result[i] = Some(Payload(urls[i]))
              /\ product[i] = NoProduct
        /\ pc[i] = "validate" =>
              /\ firecrawl_result[i] = Some(Payload(urls[i]))
              /\ product[i] # NoProduct
        /\ (results[i].kind = "returned" /\ results[i].result.success) =>
              /\ product[i].kind = "Product"
              /\ MeetsRequirements(product[i])
              /\ results[i].result.product = Some(product[i])
              /\ results[i].result.firecrawl_data = Some(Payload(urls[i]))
        /\ (Done(i) /\ IsExhausted(i)) =>
              (fetch_calls[i] = max_retries /\ firecrawl_result[i] = None
               /\ product[i] = NoProduct)

\* One URL went through a failed attempt, a successful one, extraction and
\* validation to a success, another one ran out of attempts.
C30_Witness ==
    /\ \E i \in Tasks :
          /\ Done(i)
          /\ fetch_calls[i] = 2
          /\ results[i].result.success
    /\ \E i \in Tasks : Done(i) /\ IsExhausted(i)


\* C31: the retry loop stops at the first successful fetch attempt and
\* failures after the fetch are not retried: once a fetch attempt of a URL
\* has succeeded, no further fetch call is issued for that URL, whether
\* extraction raises or validation fails, and the task never goes back
\* into the retry loop.
C31_NoFetchAfterSuccess ==
    [][\A i \in Tasks :
          firecrawl_result[i] # None =>
              /\ fetch_calls'[i] = fetch_calls[i]
              /\ firecrawl_result'[i] = firecrawl_result[i]
              /\ pc'[i] \in {"extract", "validate", "done"}]_vars

\* One URL ended with an extraction that raised after its second fetch
\* attempt succeeded, another with a failed validation after its first.
C31_Witness ==
    /\ \E i \in Tasks :
          /\ Done(i)
          /\ firecrawl_result[i] # None
          /\ fetch_calls[i] = 2
          /\ results[i] = Returned(CrawlResult(FALSE, None, Some(ExtractError), None))
    /\ \E j \in Tasks :
          /\ Done(j)
          /\ fetch_calls[j] = 1
          /\ results[j].result.error_message = Some(ValidationFailed)


\* C32: when all 3 fetch attempts of a URL fail, the error message of the
\* failure names the URL and the number of attempts and carries the cause
\* of the third attempt: every failed attempt replaces the remembered
\* cause by its own, nothing changes it between the attempt and the end
\* of the loop, and the message is composed from it.
C32_FinalCause ==
    [][\A i \in Tasks :
          /\ (pc[i] = "fetching" /\ pc'[i] = "backoff") =>
                last_exception'[i] = Some(FetchRaised)
          /\ (pc[i] = "fetching" /\ pc'[i] = "attempt") =>
                last_exception'[i] \in {Some(EmptyResult), Some(UnknownFirecrawlError)}
          /\ pc[i] \in {"backoff", "attempt"} =>
                last_exception'[i] = last_exception[i]
          /\ (pc[i] = "attempt" /\ pc'[i] = "done") =>
                /\ fetch_calls[i] = 3
                /\ last_exception[i] # None
                /\ results'[i] = Returned(CrawlResult(FALSE, None,
                       Some(<<"Failed to scrape", urls[i], "with Firecrawl after", 3,
                              "attempts", ":", last_exception[i][1]>>), None))]_vars

\* A URL ended after three failed attempts, the last one an empty response,
\* and its failure says so.
C32_Witness ==
    \E i \in Tasks :
        /\ Done(i)
        /\ fetch_calls[i] = 3
        /\ last_exception[i] = Some(EmptyResult)
        /\ results[i].result.error_message =
              Some(<<"Failed to scrape", urls[i], "with Firecrawl after", 3,
                     "attempts", ":", EmptyResult>>)


\* The tasks between entering and leaving `async with semaphore`.
HoldingSlot ==
    {i \in Tasks : pc[i] \in {"limiter", "rl_sleep", "attempt", "fetching",
                              "backoff", "extract", "validate"}}

\* C33: in crawl_multiple each URL holds exactly one slot from before its
\* rate-limit wait until its result is produced, through all retries and
\* backoff sleeps, and gives it back on every outcome: the slots taken are
\* one per task in between, a task without a slot has not started or has
\* its result, and no slot is held once crawl_multiple has returned.
C33_OneSlotPerUrl ==
    bpc # "call" =>
        /\ max_concurrent - semaphore = Cardinality(HoldingSlot)
        /\ \A i \in Tasks :
              /\ i \in HoldingSlot => results[i] = NoRet
              /\ limiter_calls[i] + fetch_calls[i] > 0 => (i \in HoldingSlot \/ Done(i))
              /\ Done(i) <=> results[i] # NoRet
        /\ bpc = "returned" => (semaphore = max_concurrent /\ HoldingSlot = {})

\* crawl_multiple returned after a fetch that ran out of attempts, an
\* extraction that raised and a validation that failed, all slots free.
C33_Witness ==
    /\ bpc = "returned"
    /\ Len(urls) = 3
    /\ semaphore = max_concurrent
    /\ \E i \in Tasks : IsExhausted(i) /\ fetch_calls[i] = 3
    /\ \E i \in Tasks : processed_results[i].error_message = Some(ExtractError)
    /\ \E i \in Tasks : processed_results[i].error_message = Some(ValidationFailed)


\* C34: the external fetch call is a suspension point: while the fetch call
\* of one URL is outstanding, the task of another URL that has a slot to
\* take, or whose sleep is over, can go on.
C34_FetchIsSuspensionPoint ==
    \A i \in Tasks : \A j \in Tasks :
        (/\ pc[i] = "fetching"
         /\ max_concurrent >= 2
         /\ \/ pc[j] = "waiting" /\ semaphore > 0
            \/ pc[j] \in {"rl_sleep", "backoff"})
        => ENABLED (Acquire(j) \/ LimiterWake(j) \/ BackoffWake(j))


\* C35: if every fetch call and every extraction call eventually returns or
\* raises, then for any URL list and any max_concurrent >= 1 every URL
\* eventually reaches its terminal success or failure and crawl_multiple
\* eventually returns, with one result per URL.  Checked under SpecLive.
C35_Termination ==
    <>(/\ bpc = "returned"
       /\ \A i \in Tasks : Done(i) /\ results[i].kind = "returned"
       /\ Len(processed_results) = Len(urls))

\* crawl_multiple returned from two URLs crawled one at a time, one of
\* them after three attempts that raised, the other with a success.
C35_Witness ==
    /\ bpc = "returned"
    /\ Len(urls) = 2
    /\ max_concurrent = 1
    /\ \E i \in Tasks : fetch_calls[i] = 3 /\ last_exception[i] = Some(FetchRaised)
    /\ \E i \in Tasks : processed_results[i].success


\* The fetch attempts of task i that failed.
FailedAttempts(i) ==
    IF firecrawl_result[i] = None THEN fetch_calls[i] ELSE fetch_calls[i] - 1

\* C39: the retry_count of a CrawlResult is the number of fetch attempts
\* that failed before the URL reached its terminal state: 0 when the first
\* attempt succeeded, 3 when all attempts were exhausted.
C39_RetryCountCountsFailures ==
    \A i \in Tasks :
        results[i].kind = "returned" =>
            results[i].result.retry_count = FailedAttempts(i)

(***************************************************************************)
(* Properties of the enrichment step and the export scripts, under         *)
(* SpecScript.                                                             *)
(***************************************************************************)
\* No stretch of the reply is a JSON object.
NoParseableObject(text) ==
    \A a \in 1..Len(text) : \A b \in a..Len(text) : ~JsonParses(SubSeq(text, a, b))

\* C23: when the reply holds no parseable JSON object, generate_search_terms
\* raises nothing and reports a soft failure: empty search_terms,
\* confidence 0.0, and a result marked as a failure.
C23_UnparseableIsSoftFailure ==
    (/\ ai_result # None
     /\ response[1].kind = "reply"
     /\ NoParseableObject(response[1].text))
    => /\ ai_result[1].search_terms = Json("list", <<>>)
       /\ ai_result[1].confidence = Json("num", 0)
       /\ ~ai_result[1].success

\* The enrichment of the product at hand failed: the call raised, or its
\* reply holds no parseable JSON object.
EnrichmentFailed ==
    /\ response # None
    /\ \/ response[1].kind = "raise"
       \/ NoParseableObject(response[1].text)

\* C24: a failure of the enrichment step does not fail the crawl of the
\* URL: the combined result of a successful crawl reports success with the
\* extracted product, and the failure shows in the enrichment fields (a
\* false ai_success, an ai_error) and nowhere else.
C24_EnrichmentFailureKept ==
    (combined # None /\ EnrichmentFailed) =>
        /\ combined[1].success
        /\ combined[1].product.name = crawl_result[1].product[1].name
        /\ "error" \notin DOMAIN combined[1]
        /\ ~combined[1].ai_success
        /\ combined[1].ai_error # <<>>

\* C25: a run is aborted by a configuration error (a missing API key, a
\* missing site setting) only before any fetch has been issued.
C25_ConfigAbortBeforeCrawl ==
    abort # None => ~fetched

\* C27: every row of the written CSV has the extraction-status "success",
\* "failed: <reason>" or "batch_failed: <reason>", and every input product
\* has exactly one row.
C27_RowStatuses ==
    written =>
        /\ \A k \in 1..Len(all_results) :
              all_results[k].extraction_status[1] \in
                  {"success", "failed: ", "batch_failed: "}
        /\ \A j \in 1..Len(products) :
              Cardinality({k \in 1..Len(all_results) :
                  all_results[k].original_url = products[j].product_url}) = 1

(***************************************************************************)
(* Liveness of the token bucket, under SpecBucketLive.                     *)
(***************************************************************************)
\* C36: with requests_per_second > 0 every acquire() call eventually
\* returns, also when several callers share the limiter and queue on its
\* lock: a caller that is inside acquire() is eventually out of it, with
\* its call in the log of returned calls, and not as a raise.
C36_EveryAcquireReturns ==
    \A c \in Callers :
        (cpc[c] # "idle")
        ~> (/\ cpc[c] = "idle"
            /\ \E k \in 1..Len(log) : log[k].call = call_no[c] /\ ~log[k].raised)

\* A caller sleeps under the lock, another is queued behind it, and a call
\* that had to sleep has already returned.
C36_Witness ==
    /\ \E c \in Callers : cpc[c] = "sleeping" /\ lock_holder = c
    /\ lock_waiters # <<>>
    /\ \E k \in 1..Len(log) : log[k].waited

(***************************************************************************)
(* The fixed-delay limiter with one sequential caller, under SpecDelaySeq. *)
(***************************************************************************)
\* C37: for a single sequential caller, any two consecutive
\* wait_if_needed() calls return at least delay_between_requests apart, and
\* the first call on a fresh limiter returns without sleeping.
C37_SequentialGap ==
    /\ \A k \in 2..Len(d_log) :
          d_log[k].t - d_log[k - 1].t >= delay_between_requests
    /\ d_log # <<>> => ~d_log[1].slept

\* Three calls returned with a delay of two ticks: the first without
\* sleeping, a later one after a sleep and exactly the delay after the call
\* before it.
C37_Witness ==
    /\ delay_between_requests = 2
    /\ Len(d_log) >= 3
    /\ ~d_log[1].slept
    /\ \E k \in 2..Len(d_log) :
          d_log[k].slept /\ d_log[k].t - d_log[k - 1].t = delay_between_requests

(***************************************************************************)
(* Frame properties of the cache, under SpecCache.                         *)
(***************************************************************************)
\* The step is a call of set(u, ...).
SetStep(u) == last_op'.op = "set" /\ last_op'.url = u

\* C38: a cache operation on one URL leaves the entries of every other URL
\* as they are: get(u) changes the store only by deleting the entry of u,
\* and only when that entry is expired or does not parse; set(u, p) changes
\* only the entry of u; and what a get of another URL finds in its file
\* is the same before and after, so that operations on different URLs
\* commute.
C38_OtherUrlsUntouched ==
    [][\A u \in CacheUrls :
          /\ (GetStep(u) \/ SetStep(u)) =>
                /\ DOMAIN cache_files' \ FilesOf(u)' = DOMAIN cache_files \ FilesOf(u)
                /\ \A name \in DOMAIN cache_files \ FilesOf(u) :
                      /\ cache_files'[name] = cache_files[name]
                      /\ (GetTry(cache_files[name]))' = GetTry(cache_files[name])
          /\ GetStep(u) =>
                /\ \A name \in FilesOf(u)' :
                      name \in FilesOf(u) /\ cache_files'[name] = cache_files[name]
                /\ cache_files' # cache_files =>
                      /\ HasAgedEntry(u) \/ HasUnparseable(u)
                      /\ FilesOf(u)' = {}]_vars

\* A get() deleted the entry of one URL, which did not parse, and the entry
\* of the other URL is still there.
C38_Witness ==
    /\ last_op.op = "get"
    /\ last_op.how = "corrupt"
    /\ \E u \in CacheUrls : \E v \in CacheUrls :
          /\ FilesOf(u) = {}
          /\ FilesOf(v) # {}
          /\ latest_put[v] \in {Some(p) : p \in JsonValues}

\* C40: set(url, payload) never raises, and a set() that fails while writing
\* leaves the cache state of the URL as it was: the file of the URL holds
\* what it held, so that a valid entry stored before is what the next
\* get(url) finds.
C40_FailedPutKeepsEntry ==
    [][\A u \in CacheUrls :
          (SetStep(u) /\ ~Serializable(last_op'.payload)) =>
              /\ FilesOf(u)' = FilesOf(u)
              /\ \A name \in FilesOf(u) : cache_files'[name] = cache_files[name]]_vars

====
